---- MODULE Spec2Model ----
(***************************************************************************)
(* Buyvia voice service (server.py): the accent normaliser                 *)
(* normalize_ghana_accent, the intent classifier parse_command and the     *)
(* tables they read.                                                       *)
(*                                                                         *)
(* Conventions.  A Python str is a TLA+ string; SubSeq, Len and \o are the *)
(* slice, len and + of Python.  A confidence is written in hundredths      *)
(* (0.95 is 95).  A dict result of parse_command is a record whose domain  *)
(* is the set of keys of the dict.                                         *)
(***************************************************************************)
EXTENDS Integers, Sequences, FiniteSets, TLC

VARIABLES raw_text, normalized, command, arg, pc, nfrag,
          FUZZY_AVAILABLE, GHANA_CORRECTIONS,
          recognizer, response,
          norm_cache, parse_cache, handler, ncalls, touches

\* the /transcribe route: the outcome of the recognizer and the response
transcribe_vars == <<recognizer, response>>

\* the two lru_cache wrappers and the request handlers that share them
cache_vars == <<norm_cache, parse_cache, handler, ncalls, touches>>

vars == <<raw_text, normalized, command, arg, pc, nfrag,
          FUZZY_AVAILABLE, GHANA_CORRECTIONS, transcribe_vars, cache_vars>>

(***************************************************************************)
(* Python str primitives                                                   *)
(***************************************************************************)
None == "<None>"

Char(s, i) == SubSeq(s, i, i)

\* characters str.strip() and str.split() treat as white space
WhiteSpace == {" ", "\t", "\n"}

UpperCase == "ABCDEFGHIJKLMNOPQRSTUVWXYZ"

LowerCase == "abcdefghijklmnopqrstuvwxyz"

\* str.lower() on one character
LowerChar(c) ==
  IF \E i \in 1..26 : Char(UpperCase, i) = c
  THEN Char(LowerCase, CHOOSE i \in 1..26 : Char(UpperCase, i) = c)
  ELSE c

RECURSIVE Lower(_)
\* str.lower()
Lower(s) ==
  IF Len(s) = 0 THEN ""
  ELSE LowerChar(Char(s, 1)) \o Lower(SubSeq(s, 2, Len(s)))

RECURSIVE LStrip(_, _)
\* str.lstrip(chars), chars given as a set of characters
LStrip(s, chars) ==
  IF Len(s) > 0 /\ Char(s, 1) \in chars
  THEN LStrip(SubSeq(s, 2, Len(s)), chars)
  ELSE s

RECURSIVE RStrip(_, _)
\* str.rstrip(chars)
RStrip(s, chars) ==
  IF Len(s) > 0 /\ Char(s, Len(s)) \in chars
  THEN RStrip(SubSeq(s, 1, Len(s) - 1), chars)
  ELSE s

\* str.strip()
Strip(s) == RStrip(LStrip(s, WhiteSpace), WhiteSpace)

\* str.strip(chars)
StripChars(s, chars) == RStrip(LStrip(s, chars), chars)

\* s[i:].startswith(p), i counted from 1
StartsAt(p, s, i) == i + Len(p) - 1 <= Len(s) /\ SubSeq(s, i, i + Len(p) - 1) = p

\* s.startswith(p)
StartsWith(s, p) == StartsAt(p, s, 1)

\* p in s
Contains(p, s) == \E i \in 1..(Len(s) - Len(p) + 1) : StartsAt(p, s, i)

\* s.find(p) + 1, for p in s
Find(p, s) == CHOOSE i \in 1..(Len(s) - Len(p) + 1) :
                /\ StartsAt(p, s, i)
                /\ \A j \in 1..(i - 1) : ~StartsAt(p, s, j)

\* s.split(p, 1)[-1]: what follows the first occurrence of p, s itself
\* when p does not occur
AfterFirst(s, p) ==
  IF Contains(p, s) THEN SubSeq(s, Find(p, s) + Len(p), Len(s)) ELSE s

RECURSIVE Replace(_, _, _)
\* s.replace(old, new) for a non-empty old: every non-overlapping
\* occurrence, scanning from the left
Replace(s, old, new) ==
  IF Contains(old, s)
  THEN LET i == Find(old, s)
       IN  SubSeq(s, 1, i - 1) \o new
             \o Replace(SubSeq(s, i + Len(old), Len(s)), old, new)
  ELSE s

RECURSIVE Split(_)
\* s.split(): the maximal runs of non-white-space characters
Split(s) ==
  LET t == LStrip(s, WhiteSpace)
  IN  IF Len(t) = 0 THEN <<>>
      ELSE LET n == IF \E i \in 1..Len(t) : Char(t, i) \in WhiteSpace
                    THEN (CHOOSE i \in 1..Len(t) :
                             /\ Char(t, i) \in WhiteSpace
                             /\ \A j \in 1..(i - 1) : Char(t, j) \notin WhiteSpace) - 1
                    ELSE Len(t)
           IN  <<SubSeq(t, 1, n)>> \o Split(SubSeq(t, n + 1, Len(t)))

RECURSIVE Join(_)
\* ' '.join(words)
Join(words) ==
  IF Len(words) = 0 THEN ""
  ELSE IF Len(words) = 1 THEN words[1]
  ELSE words[1] \o " " \o Join(Tail(words))

\* x in xs, for a list xs
InList(x, xs) == \E i \in 1..Len(xs) : xs[i] = x

(***************************************************************************)
(* Tables                                                                  *)
(***************************************************************************)
EXACT_MATCHES ==
  [k \in {"cart", "home", "orders", "profile", "shop", "checkout", "pay", "help", "momo"} |->
    CASE k = "cart"     -> <<"navigate", "cart", 95>>
      [] k = "home"     -> <<"navigate", "home", 95>>
      [] k = "orders"   -> <<"navigate", "orders", 95>>
      [] k = "profile"  -> <<"navigate", "profile", 95>>
      [] k = "shop"     -> <<"navigate", "shop", 95>>
      [] k = "checkout" -> <<"checkout", None, 90>>
      [] k = "pay"      -> <<"checkout", None, 85>>
      [] k = "help"     -> <<"help", None, 90>>
      [] k = "momo"     -> <<"pay_with_momo", None, 95>>]

COMMAND_PATTERNS == <<
  <<{"pay with momo", "pay with mobile money", "use momo",
     "use mobile money", "momo payment", "mobile money payment",
     "select momo", "mtn momo", "mtn mobile money", "vodafone cash",
     "airteltigo money", "mobile money", "pay momo", "pay using momo",
     "pay using mobile money"},
    <<"pay_with_momo">>, 95>>,
  <<{"pay with card", "use card", "card payment", "credit card",
     "debit card", "pay with visa", "pay with mastercard", "visa payment",
     "pay card", "pay using card", "use my card", "use credit card",
     "use debit card"},
    <<"pay_with_card">>, 95>>,
  <<{"pay with cash", "cash on delivery", "cash payment", "pay on delivery",
     "pay when i receive", "pay at delivery", "cod", "pay cash",
     "cash when delivered", "pay on arrival", "pay at door"},
    <<"pay_with_cash">>, 95>>,
  <<{"clear cart", "clear my cart", "empty cart", "empty my cart",
     "remove all items", "remove all from cart", "delete all", "clear all",
     "remove everything", "delete everything", "start fresh", "reset cart"},
    <<"clear_cart">>, 95>>,
  <<{"remove from cart", "remove from my cart", "delete from cart",
     "remove this", "remove it", "remove item", "remove the item",
     "delete this", "delete it", "delete item", "take out of cart",
     "take it out", "take this out", "dont want this", "don't want this",
     "i dont want", "i don't want", "cancel item", "cancel this",
     "remove product", "delete product", "get rid of", "take away"},
    <<"remove_from_cart">>, 95>>,
  <<{"add to cart", "add to my cart", "add this to cart", "put in cart",
     "add it to cart", "add this", "buy this", "i want this", "get this",
     "i will take", "i'll take", "put this in cart", "add item",
     "add product", "add it", "put it in cart", "include this",
     "i need this", "give me this", "i want to buy"},
    <<"add_to_cart">>, 95>>,
  <<{"increase quantity", "add more", "add one more", "add another",
     "increase", "plus one", "+1", "one more", "get more"},
    <<"increase_quantity">>, 90>>,
  <<{"decrease quantity", "reduce quantity", "remove one", "less",
     "minus one", "-1", "one less", "reduce", "fewer"},
    <<"decrease_quantity">>, 90>>,
  <<{"checkout", "check out", "proceed to checkout", "place order",
     "complete order", "pay now", "make payment", "ready to pay",
     "finish order", "submit order", "confirm order", "complete purchase",
     "finalize order", "buy now", "purchase now", "proceed to payment",
     "go to checkout", "continue to checkout", "process order",
     "i want to pay", "i'm ready to pay", "ready to checkout",
     "complete my order", "place my order", "pay for items", "pay for this"},
    <<"checkout">>, 95>>,
  <<{"go to cart", "go cart", "open cart", "view cart", "show cart",
     "my cart", "see cart", "check cart", "shopping cart", "view my cart",
     "show my cart", "open my cart", "whats in my cart", "what's in my cart",
     "cart please", "see my cart", "check my cart", "go to my cart",
     "the cart"},
    <<"navigate", "cart">>, 95>>,
  <<{"go to home", "go home", "back to home", "home page", "main page",
     "back home", "return home", "take me home", "homepage", "main screen",
     "start page", "landing page", "go back home", "back to start"},
    <<"navigate", "home">>, 95>>,
  <<{"go to orders", "my orders", "view orders", "show orders",
     "order history", "see orders", "check orders", "past orders",
     "previous orders", "view my orders", "show my orders",
     "check my orders", "purchase history", "what did i order",
     "my purchases", "order status", "all orders"},
    <<"navigate", "orders">>, 95>>,
  <<{"track order", "track my order", "where is my order", "order tracking",
     "track delivery", "where is my delivery", "track package",
     "track shipment", "delivery status", "shipping status",
     "when will it arrive", "when will my order arrive", "order location",
     "find my order"},
    <<"track_order">>, 95>>,
  <<{"reorder", "order again", "buy again", "repeat order", "same order",
     "order the same", "reorder this", "purchase again"},
    <<"reorder">>, 90>>,
  <<{"cancel order", "cancel my order", "cancel this order", "stop order",
     "cancel purchase", "dont want order", "don't want order"},
    <<"cancel_order">>, 90>>,
  <<{"go to profile", "my profile", "my account", "account", "settings",
     "profile", "user profile", "account settings", "my settings",
     "view profile", "open profile", "profile page", "account page"},
    <<"navigate", "profile">>, 95>>,
  <<{"go to shop", "browse", "all products", "view products", "shop",
     "store", "browse products", "see products", "show products",
     "product catalog", "view catalog", "go shopping", "start shopping",
     "shop now", "explore products", "product list", "all items"},
    <<"navigate", "shop">>, 95>>,
  <<{"browse categories", "show categories", "view categories", "categories",
     "product categories", "all categories", "category list"},
    <<"navigate", "categories">>, 90>>,
  <<{"sign out", "log out", "logout", "sign me out", "log me out",
     "exit account", "leave account", "logout please", "sign off"},
    <<"sign_out">>, 95>>,
  <<{"edit profile", "edit my profile", "update profile", "change profile",
     "modify profile", "profile settings", "update my profile"},
    <<"edit_profile">>, 90>>,
  <<{"voice settings", "voice preferences", "voice options",
     "microphone settings", "speech settings", "change voice settings",
     "voice control settings"},
    <<"voice_settings">>, 90>>,
  <<{"notification settings", "notifications", "notification preferences",
     "push notifications", "manage notifications", "change notifications",
     "alert settings", "notification options"},
    <<"notification_settings">>, 90>>,
  <<{"manage addresses", "my addresses", "delivery addresses",
     "shipping addresses", "add address", "edit address", "change address",
     "addresses", "saved addresses", "address book", "delivery address",
     "shipping address"},
    <<"manage_addresses">>, 90>>,
  <<{"change pin", "change my pin", "update pin", "new pin", "reset pin",
     "modify pin", "set pin", "set new pin"},
    <<"change_pin">>, 90>>,
  <<{"change password", "change my password", "update password",
     "new password", "reset password", "modify password", "set password",
     "set new password"},
    <<"change_password">>, 90>>,
  <<{"help center", "support", "customer support", "contact support",
     "get help", "need help", "faq", "faqs", "customer service", "help desk",
     "contact us", "support center"},
    <<"help_center">>, 90>>,
  <<{"add to wishlist", "save for later", "wishlist", "add to favorites",
     "favorite this", "save item", "bookmark", "save this"},
    <<"add_to_wishlist">>, 90>>,
  <<{"view wishlist", "my wishlist", "show wishlist", "saved items",
     "my favorites", "favorites", "saved for later"},
    <<"navigate", "wishlist">>, 90>>,
  <<{"help", "help me", "what can you do", "commands", "voice commands",
     "available commands", "what can i say", "how to use voice"},
    <<"help">>, 90>>
>>

\* group g of a table moved to its front, the other groups keeping their
\* order
MovedFirst(table, g) ==
  <<table[g]>> \o SubSeq(table, 1, g - 1) \o SubSeq(table, g + 1, Len(table))

\* the position of the group of a command type (and screen) in the table
GroupOf(cmd_type) ==
  CHOOSE g \in 1..Len(COMMAND_PATTERNS) : COMMAND_PATTERNS[g][2] = cmd_type

\* mutant: the checkout group listed before the payment methods
COMMAND_PATTERN_SETS_CheckoutFirst ==
  MovedFirst(COMMAND_PATTERNS, GroupOf(<<"checkout">>))

\* mutant: the cart navigation group listed before the cart actions
COMMAND_PATTERN_SETS_CartNavigationFirst ==
  MovedFirst(COMMAND_PATTERNS, GroupOf(<<"navigate", "cart">>))

\* COMMAND_PATTERN_SETS: the same groups in the same order, each tuple of
\* patterns turned into a frozenset
COMMAND_PATTERN_SETS == COMMAND_PATTERNS

\* ADD_TO_CART_REGEX: what may follow the captured span,
\* " (?:to|in) (?:my |the )?cart"
CartTails == {" to cart", " to my cart", " to the cart",
              " in cart", " in my cart", " in the cart"}

\* ADD_TO_CART_REGEX matches with "(?:add|put) " at i and a span (.+?) of k
\* characters, none of them a newline
AddToCartMatchAt(text, i, k) ==
  /\ StartsAt("add ", text, i) \/ StartsAt("put ", text, i)
  /\ \E tail \in CartTails : StartsAt(tail, text, i + 4 + k)
  /\ \A j \in (i + 4)..(i + 3 + k) : Char(text, j) # "\n"

\* ADD_TO_CART_REGEX.search(text) is not None
ADD_TO_CART_REGEX_matches(text) ==
  \E i \in 1..Len(text) : \E k \in 1..Len(text) : AddToCartMatchAt(text, i, k)

\* ADD_TO_CART_REGEX.search(text).group(1): the leftmost start, and for it
\* the shortest span (the group is lazy)
ADD_TO_CART_REGEX_group(text) ==
  LET i == CHOOSE i \in 1..Len(text) :
             /\ \E k \in 1..Len(text) : AddToCartMatchAt(text, i, k)
             /\ \A h \in 1..(i - 1) :
                  ~\E k \in 1..Len(text) : AddToCartMatchAt(text, h, k)
      k == CHOOSE k \in 1..Len(text) :
             /\ AddToCartMatchAt(text, i, k)
             /\ \A h \in 1..(k - 1) : ~AddToCartMatchAt(text, i, h)
  IN  SubSeq(text, i + 4, i + 3 + k)

\* SEARCH_REGEX: the position after "(?:search|find|look) " when one of the
\* three words starts at i, 0 otherwise
SearchWordEnd(text, i) ==
  IF StartsAt("search ", text, i) THEN i + 7
  ELSE IF StartsAt("find ", text, i) \/ StartsAt("look ", text, i) THEN i + 5
  ELSE 0

\* a character that "." matches stands at position j
DotAt(text, j) == j >= 1 /\ j <= Len(text) /\ Char(text, j) # "\n"

\* SEARCH_REGEX matches at i: the word, then (.+) needs one character
SearchMatchAt(text, i) ==
  SearchWordEnd(text, i) # 0 /\ DotAt(text, SearchWordEnd(text, i))

\* SEARCH_REGEX.search(text) is not None
SEARCH_REGEX_matches(text) == \E i \in 1..Len(text) : SearchMatchAt(text, i)

\* SEARCH_REGEX.search(text).group(1): at the leftmost match, "for " is
\* consumed when a character is left for (.+), which then runs to the end
\* of the line
SEARCH_REGEX_group(text) ==
  LET i == CHOOSE i \in 1..Len(text) :
             /\ SearchMatchAt(text, i)
             /\ \A h \in 1..(i - 1) : ~SearchMatchAt(text, h)
      a == SearchWordEnd(text, i)
      b == IF StartsAt("for ", text, a) /\ DotAt(text, a + 4) THEN a + 4 ELSE a
      e == IF \E j \in b..Len(text) : Char(text, j) = "\n"
           THEN (CHOOSE j \in b..Len(text) :
                    /\ Char(text, j) = "\n"
                    /\ \A h \in b..(j - 1) : Char(text, h) # "\n") - 1
           ELSE Len(text)
  IN  SubSeq(text, b, e)

\* mutant: the screen key is written whether or not the entry has a screen
ExactCommand_AlwaysScreen(text) ==
  [type |-> EXACT_MATCHES[text][1], screen |-> EXACT_MATCHES[text][2],
   confidence |-> EXACT_MATCHES[text][3]]

\* the record returned for an exact match
ExactCommand(text) ==
  LET cmd_type == EXACT_MATCHES[text][1]
      screen   == EXACT_MATCHES[text][2]
      conf     == EXACT_MATCHES[text][3]
  IN  IF screen # None
      THEN [type |-> cmd_type, screen |-> screen, confidence |-> conf]
      ELSE [type |-> cmd_type, confidence |-> conf]

\* some pattern of group g occurs in text
GroupMatches(g, text) ==
  \E pattern \in COMMAND_PATTERN_SETS[g][1] : Contains(pattern, text)

\* the record returned when group g matches; isinstance(cmd_type, tuple) is
\* Len(cmd_type) = 2, a plain command type being written <<type>>
GroupCommand(g) ==
  LET cmd_type == COMMAND_PATTERN_SETS[g][2]
      conf     == COMMAND_PATTERN_SETS[g][3]
  IN  IF Len(cmd_type) = 2
      THEN [type |-> cmd_type[1], screen |-> cmd_type[2], confidence |-> conf]
      ELSE [type |-> cmd_type[1], confidence |-> conf]

RECURSIVE ScanFrom(_, _)
\* the loop over COMMAND_PATTERN_SETS from group g on: the group the loop
\* returns at, 0 when it runs to the end
ScanFrom(g, text) ==
  IF g > Len(COMMAND_PATTERN_SETS) THEN 0
  ELSE IF GroupMatches(g, text) THEN g
  ELSE ScanFrom(g + 1, text)

RECURSIVE ScanBackFrom(_, _)
ScanBackFrom(g, text) ==
  IF g < 1 THEN 0
  ELSE IF GroupMatches(g, text) THEN g
  ELSE ScanBackFrom(g - 1, text)

\* mutant: the scan keeps going after a match, the last matching group wins
PatternScan_LastMatch(text) == ScanBackFrom(Len(COMMAND_PATTERN_SETS), text)

\* the pattern scan of step 2
PatternScan(text) == ScanFrom(1, text)

\* step 3: the product of "add X to cart", accepted when longer than 1
AddToCartProduct(text) == Strip(ADD_TO_CART_REGEX_group(text))

AddToCartAccepts(text) ==
  /\ ADD_TO_CART_REGEX_matches(text)
  /\ AddToCartProduct(text) # ""
  /\ Len(AddToCartProduct(text)) > 1

\* step 4: "buy X"
BuyProduct(text) == Strip(SubSeq(text, 5, Len(text)))

\* mutant: the length test of the product is off by one
BuyAccepts_LongerThanTwo(text) ==
  /\ StartsWith(text, "buy ")
  /\ ~Contains("cart", text)
  /\ BuyProduct(text) # ""
  /\ Len(BuyProduct(text)) > 2

BuyAccepts(text) ==
  /\ StartsWith(text, "buy ")
  /\ ~Contains("cart", text)
  /\ BuyProduct(text) # ""
  /\ Len(BuyProduct(text)) > 1

\* step 5: query or text
SearchQuery(text) ==
  LET query == Strip(SEARCH_REGEX_group(text))
  IN  IF query # "" THEN query ELSE text

\* step 6: the triggers tried in order
WantTriggers == <<"i want to buy ", "i want ", "i need ">>

WantQuery(text, n) == Strip(AfterFirst(text, WantTriggers[n]))

WantAcceptsAt(text, n) ==
  /\ Contains(WantTriggers[n], text)
  /\ WantQuery(text, n) # ""
  /\ Len(WantQuery(text, n)) > 1
  /\ WantQuery(text, n) \notin {"to pay", "to checkout"}

WantAccepts(text) ==
  /\ Contains("i want", text) \/ Contains("i need", text)
  /\ \E n \in 1..Len(WantTriggers) : WantAcceptsAt(text, n)

\* the first trigger of the loop that returns
WantFirst(text) ==
  CHOOSE n \in 1..Len(WantTriggers) :
    /\ WantAcceptsAt(text, n)
    /\ \A m \in 1..(n - 1) : ~WantAcceptsAt(text, m)

\* step 7: "show me X"
ShowMeQuery(text) == Strip(AfterFirst(text, "show me"))

ShowMeAccepts(text) == Contains("show me", text) /\ ShowMeQuery(text) # ""

action_words == <<
  "go", "sign", "log", "show", "open", "view", "check", "clear", "add",
  "remove", "pay", "navigate", "my", "the", "back", "take", "edit", "change",
  "update", "help", "checkout", "cart", "home", "orders", "profile",
  "settings", "out", "off", "delete", "empty", "cancel", "track", "place",
  "complete", "proceed", "confirm"
>>

action_phrases == <<
  "go to", "go home", "go back", "go cart", "go orders", "go profile",
  "my cart", "view cart", "open cart", "clear cart", "empty cart",
  "remove from cart", "delete from cart", "add to cart", "put in cart",
  "remove item", "delete item", "remove this", "delete this", "my orders",
  "view orders", "track order", "cancel order", "sign out", "log out",
  "sign in", "log in", "check out", "checkout", "pay now", "pay with",
  "place order", "complete order", "confirm order", "proceed to",
  "edit profile", "change password", "change pin", "voice settings",
  "notification settings", "manage addresses", "help me", "what can",
  "how do i"
>>


\* step 8: the first word is an action word
ActionWordFirst(text) ==
  LET text_words == Split(text)
  IN  Len(text_words) > 0 /\ InList(text_words[1], action_words)

\* step 8: any(phrase in text for phrase in action_phrases)
ActionPhraseIn(text) ==
  \E n \in 1..Len(action_phrases) : Contains(action_phrases[n], text)

\* mutant: the length test is off by one
DefaultFallback_OffByOne(text) ==
  IF Len(text) >= 2
  THEN [type |-> "search", query |-> text, confidence |-> 50]
  ELSE [type |-> "unknown", confidence |-> 0]

\* mutant: the length test counts words
DefaultFallback_CountsWords(text) ==
  IF Len(Split(text)) > 2
  THEN [type |-> "search", query |-> text, confidence |-> 50]
  ELSE [type |-> "unknown", confidence |-> 0]

\* step 9: the default fallback
DefaultFallback(text) ==
  IF Len(text) > 2
  THEN [type |-> "search", query |-> text, confidence |-> 50]
  ELSE [type |-> "unknown", confidence |-> 0]

\* parse_command without its cache: the cascade on the stripped,
\* lower-cased text
Cascade(text) ==
  IF text \in DOMAIN EXACT_MATCHES THEN ExactCommand(text)
  ELSE IF PatternScan(text) # 0 THEN GroupCommand(PatternScan(text))
  ELSE IF AddToCartAccepts(text)
    THEN [type |-> "add_to_cart", query |-> AddToCartProduct(text),
          confidence |-> 90]
  ELSE IF BuyAccepts(text)
    THEN [type |-> "add_to_cart", query |-> BuyProduct(text),
          confidence |-> 85]
  ELSE IF SEARCH_REGEX_matches(text)
    THEN [type |-> "search", query |-> SearchQuery(text), confidence |-> 85]
  ELSE IF WantAccepts(text)
    THEN [type |-> "add_to_cart", query |-> WantQuery(text, WantFirst(text)),
          confidence |-> 80]
  ELSE IF ShowMeAccepts(text)
    THEN [type |-> "search", query |-> ShowMeQuery(text), confidence |-> 85]
  ELSE IF ActionWordFirst(text)
    THEN [type |-> "unknown", confidence |-> 30, raw_text |-> text]
  ELSE IF ActionPhraseIn(text)
    THEN [type |-> "unknown", confidence |-> 30, raw_text |-> text]
  ELSE DefaultFallback(text)

\* text.lower().strip()
Canonical(text) == Strip(Lower(text))

\* mutant: the empty text is answered like an unmatched action phrase
parse_command_EmptyAsAction(text) ==
  IF text = "" THEN [type |-> "unknown", confidence |-> 30, raw_text |-> text]
  ELSE Cascade(Canonical(text))

\* parse_command(text)
parse_command(text) ==
  IF text = "" THEN [type |-> "unknown", confidence |-> 0]
  ELSE Cascade(Canonical(text))

(***************************************************************************)
(* normalize_ghana_accent                                                  *)
(***************************************************************************)
phrase_corrections == <<
  <<"go to cats", "go to cart">>, <<"go to cat", "go to cart">>,
  <<"go to cut", "go to cart">>, <<"go to card", "go to cart">>,
  <<"to cats", "to cart">>, <<"to cat", "to cart">>, <<"to cut", "to cart">>,
  <<"to card", "to cart">>, <<"go cats", "go cart">>,
  <<"go cat", "go cart">>, <<"go cut", "go cart">>, <<"my cats", "my cart">>,
  <<"my cat", "my cart">>, <<"view cats", "view cart">>,
  <<"view cat", "view cart">>, <<"clear cats", "clear cart">>,
  <<"clear cat", "clear cart">>, <<"empty cats", "empty cart">>,
  <<"empty cat", "empty cart">>, <<"check outs", "checkout">>,
  <<"chek out", "checkout">>, <<"check owt", "checkout">>,
  <<"search 4", "search for">>, <<"look 4", "look for">>,
  <<"searching 4", "searching for">>, <<"go hom", "go home">>,
  <<"go hum", "go home">>, <<"back 2 home", "back to home">>,
  <<"my odas", "my orders">>, <<"my oda", "my order">>,
  <<"view odas", "view orders">>, <<"add 2 cart", "add to cart">>,
  <<"add 2 my cart", "add to my cart">>, <<"put in cats", "put in cart">>,
  <<"put in cat", "put in cart">>,
  <<"remove from cats", "remove from cart">>,
  <<"remove from cat", "remove from cart">>,
  <<"delete from cats", "delete from cart">>,
  <<"delete from cat", "delete from cart">>,
  <<"i dey find", "i am looking for">>,
  <<"i dey search", "i am searching for">>, <<"make i see", "show me">>,
  <<"abeg", "please">>, <<"e be like", "it looks like">>
>>

RECURSIVE ApplyPhrases_Reversed(_, _)
\* the loop run over the list from its last rule to its first
ApplyPhrases_Reversed(text_lower, n) ==
  IF n > Len(phrase_corrections) THEN text_lower
  ELSE LET k       == Len(phrase_corrections) + 1 - n
           wrong   == phrase_corrections[k][1]
           correct == phrase_corrections[k][2]
       IN  IF Contains(wrong, text_lower)
           THEN ApplyPhrases_Reversed(Replace(text_lower, wrong, correct),
                                      n + 1)
           ELSE ApplyPhrases_Reversed(text_lower, n + 1)

RECURSIVE ApplyPhrases(_, _)
\* the loop over phrase_corrections from rule n on
ApplyPhrases(text_lower, n) ==
  IF n > Len(phrase_corrections) THEN text_lower
  ELSE LET wrong   == phrase_corrections[n][1]
           correct == phrase_corrections[n][2]
       IN  IF Contains(wrong, text_lower)
           THEN ApplyPhrases(Replace(text_lower, wrong, correct), n + 1)
           ELSE ApplyPhrases(text_lower, n + 1)

\* the characters of word.strip('.,!?;:')
Punctuation == {".", ",", "!", "?", ";", ":"}

Max(a, b) == IF a >= b THEN a ELSE b

RECURSIVE LcsRow(_, _, _, _)
\* one row of the longest-common-subsequence table: row is the part of the
\* row of character c already computed, prev the row above
LcsRow(prev, c, b, row) ==
  LET j == Len(row)
  IN  IF j > Len(b) THEN row
      ELSE LcsRow(prev, c, b,
                  Append(row, IF Char(b, j) = c THEN prev[j] + 1
                              ELSE Max(prev[j + 1], row[j])))

RECURSIVE LcsFrom(_, _, _, _)
\* the table filled row by row from character i of a on
LcsFrom(a, b, i, prev) ==
  IF i > Len(a) \/ Len(prev) = 0 THEN prev[Len(b) + 1]
  ELSE LcsFrom(a, b, i + 1, LcsRow(prev, Char(a, i), b, <<0>>))

\* length of the longest common subsequence of a and b
Lcs(a, b) == LcsFrom(a, b, 1, [j \in 1..(Len(b) + 1) |-> 0])

\* fuzz.ratio(a, b) >= score_cutoff, the ratio being
\* 100 * 2 * Lcs(a, b) / (len(a) + len(b)), and 100 for two empty strings
SCORE_CUTOFF == 85

RatioAtLeastCutoff(a, b) ==
  \/ Len(a) + Len(b) = 0
  \/ 200 * Lcs(a, b) >= SCORE_CUTOFF * (Len(a) + Len(b))

\* fuzz.ratio(q, a) > fuzz.ratio(q, b), for non-empty a and b
RatioBetter(q, a, b) ==
  Lcs(q, a) * (Len(q) + Len(b)) > Lcs(q, b) * (Len(q) + Len(a))

\* search_targets: the values of the dictionary and the exact-match keys
search_targets(corrections) ==
  {corrections[k] : k \in DOMAIN corrections} \cup DOMAIN EXACT_MATCHES

\* process.extractOne(clean, search_targets, scorer=fuzz.ratio,
\* score_cutoff=85): a target of highest ratio among those reaching the
\* cutoff, None when there is none.  Among targets of equal ratio the
\* library keeps the one the set yields first, an order fixed for the life
\* of the process; the CHOOSE is that fixed choice.
extractOne(clean, targets) ==
  LET ok == {t \in targets : RatioAtLeastCutoff(clean, t)}
  IN  IF ok = {} THEN None
      ELSE CHOOSE t \in ok : \A u \in ok : ~RatioBetter(clean, u, t)

\* the body of the loop over words: what is appended to normalized
NormalizeWord(word, corrections, fuzzy) ==
  LET clean == StripChars(word, Punctuation)
      match == extractOne(clean, search_targets(corrections))
  IN  IF clean \in DOMAIN corrections THEN corrections[clean]
      ELSE IF fuzzy /\ match # None THEN match
      ELSE word

\* normalize_ghana_accent without its cache
Normalize(text, corrections, fuzzy) ==
  IF text = "" THEN text
  ELSE LET words == Split(ApplyPhrases(Lower(text), 1))
       IN  Join([n \in 1..Len(words) |->
                   NormalizeWord(words[n], corrections, fuzzy)])

(***************************************************************************)
(* The running service                                                     *)
(***************************************************************************)
\* a request text is made of at most MaxFrags fragments
MaxFrags == 2

\* and is at most MaxLen characters long
MaxLen == 22

\* the fragments of request text, joined by single spaces; the empty
\* fragment and the tab give texts with leading, trailing and repeated
\* white space
Fragments ==
  {"", "\t", "add iphone", "to cart", "to my cart", "in cart", "put x",
   "pay with momo", "Use Card", "checkout", "clear cart", "remove it",
   "edit profile", "xyzqkr", "xy", "buy", "i want", "search for", "show me",
   "go to cats", "go hom", "i want to buy"}

\* ghana_corrections.json failed to load
NoCorrections == [k \in {} |-> ""]

\* a correction dictionary as the file supplies one
SampleCorrections ==
  [k \in {"card", "cats", "hom", "oda"} |->
     CASE k = "card" -> "cart"
       [] k = "cats" -> "cart"
       [] k = "hom" -> "home"
       [] k = "oda" -> "order"]

Init ==
  /\ pc = "start"
  /\ raw_text = ""
  /\ nfrag = 0
  /\ normalized = None
  /\ command = None
  /\ arg = None
  /\ FUZZY_AVAILABLE = FALSE
  /\ GHANA_CORRECTIONS = NoCorrections
  /\ recognizer = None
  /\ response = None
  /\ norm_cache = <<>>
  /\ parse_cache = <<>>
  /\ handler = <<>>
  /\ ncalls = 0
  /\ touches = <<>>

\* module import with rapidfuzz installed: FUZZY_AVAILABLE is set, the
\* dictionary is loaded (or left empty when the file cannot be read)
ImportModule ==
  /\ pc = "start"
  /\ FUZZY_AVAILABLE' = TRUE
  /\ GHANA_CORRECTIONS' \in {NoCorrections, SampleCorrections}
  /\ pc' = "idle"
  /\ UNCHANGED <<raw_text, nfrag, normalized, command, arg>>
  /\ UNCHANGED <<transcribe_vars, cache_vars>>

\* module import without rapidfuzz: the except clause uses logger before
\* its definition, the NameError ends the import
ImportWithoutRapidfuzz ==
  /\ pc = "start"
  /\ FUZZY_AVAILABLE' = FALSE
  /\ pc' = "crashed"
  /\ UNCHANGED <<raw_text, nfrag, normalized, command, arg,
                 GHANA_CORRECTIONS>>
  /\ UNCHANGED <<transcribe_vars, cache_vars>>

\* a client composes the text of its next request
Compose(f) ==
  /\ pc = "idle"
  /\ nfrag < MaxFrags
  /\ raw_text' = IF nfrag = 0 THEN f ELSE raw_text \o " " \o f
  /\ Len(raw_text') <= MaxLen
  /\ nfrag' = nfrag + 1
  /\ UNCHANGED <<pc, normalized, command, arg, FUZZY_AVAILABLE,
                 GHANA_CORRECTIONS>>
  /\ UNCHANGED <<transcribe_vars, cache_vars>>

\* /parse, first call: normalized = normalize_ghana_accent(text)
ParseNormalize ==
  /\ pc = "idle"
  /\ normalized' = Normalize(raw_text, GHANA_CORRECTIONS, FUZZY_AVAILABLE)
  /\ pc' = "normalized"
  /\ UNCHANGED <<raw_text, nfrag, command, arg, FUZZY_AVAILABLE,
                 GHANA_CORRECTIONS>>
  /\ UNCHANGED <<transcribe_vars, cache_vars>>

\* /parse, second call: command = parse_command(normalized)
ParseCommand ==
  /\ pc = "normalized"
  /\ arg' = normalized
  /\ command' = parse_command(normalized)
  /\ pc' = "parsed"
  /\ UNCHANGED <<raw_text, nfrag, normalized, FUZZY_AVAILABLE,
                 GHANA_CORRECTIONS>>
  /\ UNCHANGED <<transcribe_vars, cache_vars>>

\* parse_command called on a text as it stands
CallParseCommand ==
  /\ pc = "idle"
  /\ arg' = raw_text
  /\ command' = parse_command(raw_text)
  /\ pc' = "called"
  /\ UNCHANGED <<raw_text, nfrag, normalized, FUZZY_AVAILABLE,
                 GHANA_CORRECTIONS>>
  /\ UNCHANGED <<transcribe_vars, cache_vars>>

\* the response is sent (the call returns); the service waits for the next
\* request
Respond ==
  /\ pc \in {"parsed", "called"}
  /\ pc' = "idle"
  /\ raw_text' = ""
  /\ nfrag' = 0
  /\ normalized' = None
  /\ command' = None
  /\ arg' = None
  /\ UNCHANGED <<FUZZY_AVAILABLE, GHANA_CORRECTIONS>>
  /\ UNCHANGED <<transcribe_vars, cache_vars>>

\* /transcribe: the request carries no file, or fewer than 100 bytes of audio
TranscribeReject(error) ==
  /\ pc = "idle" /\ nfrag = 0
  /\ response' = [success |-> FALSE, error |-> error, status |-> 400]
  /\ pc' = "done"
  /\ UNCHANGED <<raw_text, nfrag, normalized, command, arg, recognizer,
                 FUZZY_AVAILABLE, GHANA_CORRECTIONS, cache_vars>>

\* /transcribe: recognize_google returns the text it heard
TranscribeRecognized(text) ==
  /\ pc = "idle" /\ nfrag = 0
  /\ recognizer' = "text"
  /\ raw_text' = text
  /\ pc' = "recognized"
  /\ UNCHANGED <<nfrag, normalized, command, arg, response,
                 FUZZY_AVAILABLE, GHANA_CORRECTIONS, cache_vars>>

\* /transcribe: the recognizer raises UnknownValueError (no speech in the
\* audio); the handler goes on with raw_text = ""
TranscribeUnknownValue ==
  /\ pc = "idle" /\ nfrag = 0
  /\ recognizer' = "UnknownValueError"
  /\ raw_text' = ""
  /\ pc' = "recognized"
  /\ UNCHANGED <<nfrag, normalized, command, arg, response,
                 FUZZY_AVAILABLE, GHANA_CORRECTIONS, cache_vars>>

\* /transcribe: the recognizer raises RequestError (the speech service
\* cannot be reached); the handler returns at once
TranscribeRequestError ==
  /\ pc = "idle" /\ nfrag = 0
  /\ recognizer' = "RequestError"
  /\ response' = [success |-> FALSE, error |-> "Speech API error",
                  status |-> 503]
  /\ pc' = "done"
  /\ UNCHANGED <<raw_text, nfrag, normalized, command, arg,
                 FUZZY_AVAILABLE, GHANA_CORRECTIONS, cache_vars>>

\* /transcribe: any other exception (the audio cannot be read, ...) ends in
\* the handler's last except clause
TranscribeException ==
  /\ pc = "idle" /\ nfrag = 0
  /\ recognizer' = "Exception"
  /\ response' = [success |-> FALSE, error |-> "Exception", status |-> 500]
  /\ pc' = "done"
  /\ UNCHANGED <<raw_text, nfrag, normalized, command, arg,
                 FUZZY_AVAILABLE, GHANA_CORRECTIONS, cache_vars>>

\* /transcribe after the recognizer block: normalize, parse, and the
\* response (its timing_ms field is left out)
TranscribeParse ==
  /\ pc = "recognized"
  /\ normalized' = Normalize(raw_text, GHANA_CORRECTIONS, FUZZY_AVAILABLE)
  /\ arg' = normalized'
  /\ command' = parse_command(normalized')
  /\ response' = [success |-> TRUE, raw_text |-> raw_text,
                  normalized_text |-> normalized', command |-> command',
                  status |-> 200]
  /\ pc' = "done"
  /\ UNCHANGED <<raw_text, nfrag, recognizer, FUZZY_AVAILABLE,
                 GHANA_CORRECTIONS, cache_vars>>

\* /transcribe: the response is sent; the service waits for the next request
TranscribeReturn ==
  /\ pc = "done"
  /\ pc' = "idle"
  /\ raw_text' = ""
  /\ normalized' = None
  /\ command' = None
  /\ arg' = None
  /\ recognizer' = None
  /\ response' = None
  /\ UNCHANGED <<nfrag, FUZZY_AVAILABLE, GHANA_CORRECTIONS, cache_vars>>

Next ==
  \/ ImportModule
  \/ ImportWithoutRapidfuzz
  \/ \E f \in Fragments : Compose(f)
  \/ ParseNormalize
  \/ ParseCommand
  \/ CallParseCommand
  \/ Respond
  \/ \E error \in {"No audio file", "Audio file too small"} :
       TranscribeReject(error)
  \/ \E text \in Fragments : TranscribeRecognized(text)
  \/ TranscribeUnknownValue
  \/ TranscribeRequestError
  \/ TranscribeException
  \/ TranscribeParse
  \/ TranscribeReturn

Spec == Init /\ [][Next]_vars

(***************************************************************************)
(* Properties                                                              *)
(***************************************************************************)
\* parse_command has returned command for the argument arg
Returned == pc \in {"parsed", "called"}

\* the text the cascade of parse_command works on
Text == Canonical(arg)

\* group g of the table has a trigger phrase occurring in text
TriggerIn(g, text) == \E phrase \in COMMAND_PATTERNS[g][1] : Contains(phrase, text)

\* the groups of the table with a trigger phrase occurring in text
GroupsIn(text) == {g \in 1..Len(COMMAND_PATTERNS) : TriggerIn(g, text)}

\* the command the table binds to group g
TableCommand(g) ==
  IF Len(COMMAND_PATTERNS[g][2]) = 2
  THEN [type |-> COMMAND_PATTERNS[g][2][1], screen |-> COMMAND_PATTERNS[g][2][2],
        confidence |-> COMMAND_PATTERNS[g][3]]
  ELSE [type |-> COMMAND_PATTERNS[g][2][1], confidence |-> COMMAND_PATTERNS[g][3]]

\* the groups of the table bound to one of the command types
GroupsOfTypes(types) ==
  {g \in 1..Len(COMMAND_PATTERNS) : COMMAND_PATTERNS[g][2][1] \in types
                                    /\ Len(COMMAND_PATTERNS[g][2]) = 1}

\* those of them with a trigger phrase occurring in text
GroupsOfTypesIn(types, text) == {g \in GroupsOfTypes(types) : TriggerIn(g, text)}

\* the text is only white space
Blank(text) == \A i \in 1..Len(text) : Char(text, i) \in WhiteSpace

\* C1: for a text that is not an exact-match key, the result of
\* parse_command is the command of the first group, in table order, that
\* has a trigger phrase occurring in the text; later groups and later steps
\* of the cascade do not change it.
C1_FirstGroupWins ==
  Returned /\ arg # "" =>
    LET text   == Text
        groups == GroupsIn(text)
    IN  text \notin DOMAIN EXACT_MATCHES =>
          \A g \in groups : (\A h \in groups : g <= h) => command = TableCommand(g)

\* C1 witness: a text with trigger phrases of two groups bound to different
\* commands was parsed, giving the command of the earlier group.
C1_Witness ==
  /\ Returned /\ arg # "" /\ Text \notin DOMAIN EXACT_MATCHES
  /\ \E g, h \in GroupsIn(Text) :
       /\ g < h
       /\ TableCommand(g).type # TableCommand(h).type
       /\ command = TableCommand(g)

PROFILE_ACTIONS == {"sign_out", "edit_profile", "voice_settings",
                    "notification_settings", "manage_addresses", "change_pin",
                    "change_password", "help_center"}

\* C2: a text containing a trigger phrase of a profile/account action group
\* (sign_out, edit_profile, voice_settings, notification_settings,
\* manage_addresses, change_pin, change_password, help_center) is never
\* classified as navigate, these groups being checked before the
\* navigation groups.
C2_ProfileActionNeverNavigate ==
  Returned /\ arg # "" =>
    \A g \in GroupsOfTypes(PROFILE_ACTIONS) :
      TriggerIn(g, Text) => command.type # "navigate"

\* C3: for a text matching "(add|put) <span> (to|in) (my |the )?cart" with
\* a trimmed span longer than one character, the "my cart" and "the cart"
\* forms included, parse_command returns add_to_cart with the trimmed span
\* as query and confidence 0.9.
C3_AddSpanToCart ==
  Returned /\ arg # "" /\ ADD_TO_CART_REGEX_matches(Text)
           /\ Len(Strip(ADD_TO_CART_REGEX_group(Text))) > 1 =>
    command = [type |-> "add_to_cart",
               query |-> Strip(ADD_TO_CART_REGEX_group(Text)),
               confidence |-> 90]

PAYMENT_METHODS == {"pay_with_momo", "pay_with_card", "pay_with_cash"}

\* C4: for a text that is not an exact-match key and contains a trigger
\* phrase of a payment-method group, parse_command returns the type of the
\* first such group with confidence 0.95 and nothing else, whatever
\* checkout or navigation triggers the text also contains; "pay with momo"
\* gives pay_with_momo with confidence 0.95.
C4_PaymentMethodFirst ==
  Returned /\ arg # "" /\ Text \notin DOMAIN EXACT_MATCHES =>
    LET text == Text
        pay  == GroupsOfTypesIn(PAYMENT_METHODS, text)
    IN  /\ \A g \in pay : (\A h \in pay : g <= h) =>
             command = [type |-> COMMAND_PATTERNS[g][2][1], confidence |-> 95]
        /\ pay # {} => command.type \notin {"checkout", "navigate"}
        /\ arg = "pay with momo" =>
             command = [type |-> "pay_with_momo", confidence |-> 95]

\* C4 witness: a text with a payment-method trigger and a checkout trigger
\* was parsed as the payment method.
C4_Witness ==
  /\ Returned /\ arg # "" /\ Text \notin DOMAIN EXACT_MATCHES
  /\ GroupsOfTypesIn(PAYMENT_METHODS, Text) # {}
  /\ GroupsOfTypesIn({"checkout"}, Text) # {}
  /\ command.type \in PAYMENT_METHODS

CART_ACTIONS == {"clear_cart", "remove_from_cart", "add_to_cart"}

\* navigation to the cart
NavigateCart(cmd) ==
  cmd.type = "navigate" /\ "screen" \in DOMAIN cmd /\ cmd.screen = "cart"

\* C5: a text containing a trigger phrase of the clear_cart,
\* remove_from_cart or add_to_cart group is never classified as navigation
\* to the cart, whatever cart-navigation trigger it also contains.
C5_CartActionNeverCartNavigation ==
  Returned /\ arg # "" /\ NavigateCart(command) =>
    GroupsOfTypesIn(CART_ACTIONS, Text) = {}

\* C5 witness: a text with a cart-action trigger and a cart-navigation
\* trigger ("my cart", "the cart") was parsed as a cart action.
C5_Witness ==
  /\ Returned /\ arg # ""
  /\ GroupsOfTypesIn(CART_ACTIONS, Text) # {}
  /\ TriggerIn(GroupOf(<<"navigate", "cart">>), Text)
  /\ command.type \in CART_ACTIONS

\* C6: every result of type search, add_to_cart or remove_from_cart
\* carries a query field.
C6_QueryPresent ==
  Returned =>
    (command.type \in {"search", "add_to_cart", "remove_from_cart"}
       => "query" \in DOMAIN command)

\* the command names of the tables and of the cascade
COMMAND_TYPES ==
  {"navigate", "checkout", "help", "pay_with_momo", "pay_with_card",
   "pay_with_cash", "clear_cart", "remove_from_cart", "add_to_cart",
   "increase_quantity", "decrease_quantity", "track_order", "reorder",
   "cancel_order", "sign_out", "edit_profile", "voice_settings",
   "notification_settings", "manage_addresses", "change_pin",
   "change_password", "help_center", "add_to_wishlist", "search", "unknown"}

\* the confidence values of the tables and of the cascade, in hundredths
CONFIDENCES == {0, 30, 50, 80, 85, 90, 95}

\* C7: the result of parse_command is a record with a type among the
\* command names, a confidence among the fixed values of [0,1], a screen
\* field exactly when the type is navigate, and a raw_text field only when
\* the type is unknown.
C7_ResultWellFormed ==
  Returned =>
    /\ {"type", "confidence"} \subseteq DOMAIN command
    /\ DOMAIN command \subseteq {"type", "confidence", "screen", "query", "raw_text"}
    /\ command.type \in COMMAND_TYPES
    /\ command.confidence \in CONFIDENCES
    /\ ("screen" \in DOMAIN command) <=> (command.type = "navigate")
    /\ ("raw_text" \in DOMAIN command) => (command.type = "unknown")

\* C7 witness: an exact-match entry without a screen was returned (a
\* record with no screen field), as for "checkout".
C7_Witness ==
  /\ Returned /\ arg # "" /\ Text \in DOMAIN EXACT_MATCHES
  /\ EXACT_MATCHES[Text][2] = None
  /\ "screen" \notin DOMAIN command

\* C8 as claimed: parse_command("xyzqkr") is unknown with confidence 0.0.
C8_XyzqkrUnknown ==
  Returned /\ arg = "xyzqkr" => command = [type |-> "unknown", confidence |-> 0]

\* C8 amended: parse_command("xyzqkr") is search with query "xyzqkr" and
\* confidence 0.5, six characters being more than 2.
C8_XyzqkrSearch ==
  Returned /\ arg = "xyzqkr" =>
    command = [type |-> "search", query |-> "xyzqkr", confidence |-> 50]

\* C8 witness: parse_command("xyzqkr") has returned.
C8_Witness == Returned /\ arg = "xyzqkr" /\ command.type = "search"

\* no step of the cascade before the default fallback applies to text
ReachesEnd(text) ==
  /\ text \notin DOMAIN EXACT_MATCHES
  /\ ~StartsWith(text, "buy ")
  /\ ~Contains("i want", text) /\ ~Contains("i need", text)
  /\ ~Contains("show me", text)
  /\ ~ADD_TO_CART_REGEX_matches(text)
  /\ ~SEARCH_REGEX_matches(text)
  /\ \A n \in 1..Len(action_words) :
       ~(Len(Split(text)) > 0 /\ Split(text)[1] = action_words[n])
  /\ \A n \in 1..Len(action_phrases) : ~Contains(action_phrases[n], text)
  /\ \A g \in 1..Len(COMMAND_PATTERNS) : ~TriggerIn(g, text)

\* C9: for a text that reaches the end of the cascade, parse_command
\* returns search with the trimmed lower-cased text as query and confidence
\* 0.5 when that text is longer than 2 characters, and unknown with
\* confidence 0.0 when it has 2 characters or fewer.
C9_DefaultFallback ==
  Returned =>
    LET text == Text
    IN  ReachesEnd(text) =>
          /\ Len(text) > 2 =>
                command = [type |-> "search", query |-> text, confidence |-> 50]
          /\ Len(text) <= 2 => command = [type |-> "unknown", confidence |-> 0]

\* C9 witness: a text of one or two characters, given with surrounding
\* white space, reached the end of the cascade.
C9_Witness ==
  /\ Returned /\ ReachesEnd(Text)
  /\ arg # Text /\ Len(Text) \in {1, 2}
  /\ command.type = "unknown"

\* C10: for an empty or white-space-only request text,
\* normalize_ghana_accent followed by parse_command gives unknown with
\* confidence 0.0; normalize_ghana_accent("") is "".
C10_BlankIsUnknown ==
  /\ pc \in {"normalized", "parsed"} /\ raw_text = "" => normalized = ""
  /\ pc = "parsed" /\ Blank(raw_text) =>
       command = [type |-> "unknown", confidence |-> 0]

\* C10 witness: a request of white space only went through both functions.
C10_Witness ==
  /\ pc = "parsed" /\ raw_text # "" /\ Blank(raw_text)
  /\ command.type = "unknown"

\* C15: when rapidfuzz is not available (the import took its except
\* branch, FUZZY_AVAILABLE is False) the program still starts: it does not
\* end in an error.
C15_StartsWithoutRapidfuzz ==
  pc # "start" /\ ~FUZZY_AVAILABLE => pc # "crashed"

\* the text after the leading "buy ", trimmed
BuyRemainder(text) == Strip(SubSeq(text, 5, Len(text)))

\* no step before "buy X" answers: no exact match, no trigger phrase of the
\* table, no match of the add-to-cart pattern
ReachesBuy(text) ==
  /\ text \notin DOMAIN EXACT_MATCHES
  /\ ~ADD_TO_CART_REGEX_matches(text)
  /\ \A g \in 1..Len(COMMAND_PATTERNS) : ~TriggerIn(g, text)

\* C16 as stated: every text that starts with "buy " and does not contain
\* "cart" gives add_to_cart with the remainder as query and confidence 0.85.
C16_BuyAlways ==
  Returned =>
    LET text == Text
    IN  StartsWith(text, "buy ") /\ ~Contains("cart", text) =>
          command = [type |-> "add_to_cart", query |-> BuyRemainder(text),
                     confidence |-> 85]

\* C16, amended: a text that starts with "buy ", does not contain "cart",
\* is answered by no earlier step (exact match, trigger phrase, add-to-cart
\* pattern) and whose trimmed remainder is longer than one character gives
\* add_to_cart with that remainder as query and confidence 0.85.
C16_BuyStep ==
  Returned =>
    LET text == Text
    IN  /\ StartsWith(text, "buy ") /\ ~Contains("cart", text)
        /\ Len(BuyRemainder(text)) > 1
        /\ ReachesBuy(text)
        => command = [type |-> "add_to_cart", query |-> BuyRemainder(text),
                      confidence |-> 85]

\* C16 witness: a "buy" text with a product of two characters went through
\* the step.
C16_Witness ==
  /\ Returned /\ StartsWith(Text, "buy ") /\ ReachesBuy(Text)
  /\ Len(BuyRemainder(Text)) = 2
  /\ command = [type |-> "add_to_cart", query |-> BuyRemainder(Text),
                confidence |-> 85]

\* the first trigger of step 6, in its order, that occurs in text; 0: none
FirstWantTrigger(text) ==
  IF \E n \in 1..Len(WantTriggers) : Contains(WantTriggers[n], text)
  THEN CHOOSE n \in 1..Len(WantTriggers) :
         /\ Contains(WantTriggers[n], text)
         /\ \A m \in 1..(n - 1) : ~Contains(WantTriggers[m], text)
  ELSE 0

\* the text after the first occurrence of that trigger, trimmed
WantRemainder(text) ==
  Strip(AfterFirst(text, WantTriggers[FirstWantTrigger(text)]))

\* C17: a text containing "i want" or "i need" has the first matching
\* trigger of "i want to buy ", "i want ", "i need " stripped and gives
\* add_to_cart with the remainder as query and confidence 0.8 ("i want to
\* buy <product>" gives query <product>); a remainder "to pay" or
\* "to checkout" does not give add_to_cart.
C17_WantStep ==
  Returned =>
    LET text == Text
    IN  /\ Contains("i want", text) \/ Contains("i need", text)
        /\ FirstWantTrigger(text) # 0
        => IF WantRemainder(text) \in {"to pay", "to checkout"}
           THEN command.type # "add_to_cart"
           ELSE command = [type |-> "add_to_cart",
                           query |-> WantRemainder(text), confidence |-> 80]

\* C18: in /transcribe, "no speech detected" (UnknownValueError) and
\* "transcription service unavailable" (RequestError) each end in a response
\* with success false, of two distinct kinds (503 for the unreachable
\* service only); neither ends in a response with success true.
C18_RecognizerFailuresAreErrors ==
  pc = "done" /\ recognizer \in {"UnknownValueError", "RequestError"} =>
    /\ response.success = FALSE
    /\ response.status = 503 <=> recognizer = "RequestError"

(***************************************************************************)
(* normalize_ghana_accent as a function of its text and of the two module  *)
(* globals it reads                                                        *)
(***************************************************************************)
\* the fragments of the texts the function is called on
NormFragments ==
  << "", "go to cats", "add 2 my cats", "go home", "go to cart", "go hom",
     "go hum", "My Odas", "abeg", "chek out", "xy", "cats", "shop.",
     "helps", "hom" >>

\* the globals as the function may find them: the dictionary loaded or
\* empty, fuzzy matching on or off
InitNormalize ==
  /\ pc = "idle"
  /\ raw_text = ""
  /\ nfrag = 0
  /\ normalized = None
  /\ command = None
  /\ arg = None
  /\ FUZZY_AVAILABLE \in BOOLEAN
  /\ GHANA_CORRECTIONS \in {NoCorrections, SampleCorrections}
  /\ recognizer = None
  /\ response = None
  /\ norm_cache = <<>>
  /\ parse_cache = <<>>
  /\ handler = <<>>
  /\ ncalls = 0
  /\ touches = <<>>

\* normalize_ghana_accent(text)
NormalizeText ==
  /\ pc = "idle"
  /\ arg' = raw_text
  /\ normalized' = Normalize(raw_text, GHANA_CORRECTIONS, FUZZY_AVAILABLE)
  /\ pc' = "normalized"
  /\ UNCHANGED <<raw_text, nfrag, command, FUZZY_AVAILABLE,
                 GHANA_CORRECTIONS>>
  /\ UNCHANGED <<transcribe_vars, cache_vars>>

\* normalize_ghana_accent called on its own result
NormalizeAgain ==
  /\ pc = "normalized"
  /\ arg' = normalized
  /\ normalized' = Normalize(normalized, GHANA_CORRECTIONS, FUZZY_AVAILABLE)
  /\ pc' = "renormalized"
  /\ UNCHANGED <<raw_text, nfrag, command, FUZZY_AVAILABLE,
                 GHANA_CORRECTIONS>>
  /\ UNCHANGED <<transcribe_vars, cache_vars>>

\* the result is returned; the next text may be a new one
NormalizeReturn ==
  /\ pc \in {"normalized", "renormalized"}
  /\ pc' = "idle"
  /\ raw_text' = ""
  /\ nfrag' = 0
  /\ normalized' = None
  /\ arg' = None
  /\ UNCHANGED <<command, FUZZY_AVAILABLE, GHANA_CORRECTIONS>>
  /\ UNCHANGED <<transcribe_vars, cache_vars>>

NextNormalize ==
  \/ \E n \in 1..Len(NormFragments) : Compose(NormFragments[n])
  \/ NormalizeText
  \/ NormalizeAgain
  \/ NormalizeReturn

SpecNormalize == InitNormalize /\ [][NextNormalize]_vars

\* the call under the conditions of the normaliser claims: empty dictionary,
\* fuzzy matching off
PhraseRulesOnly == GHANA_CORRECTIONS = NoCorrections /\ ~FUZZY_AVAILABLE

\* C11: with an empty dictionary and fuzzy matching off the phrase rules are
\* applied in their listed order to the running lower-cased text, a later
\* rule seeing what the earlier ones wrote: "go to cats" becomes
\* "go to cart", and "add 2 my cats", which needs the rule for "my cats" and
\* then the later rule for "add 2 my cart", becomes "add to my cart"; a text
\* no rule matches is returned lower-cased.
C11_PhraseRulesInOrder ==
  pc = "normalized" /\ PhraseRulesOnly =>
    /\ raw_text = "go to cats" => normalized = "go to cart"
    /\ raw_text = "add 2 my cats" => normalized = "add to my cart"
    /\ raw_text = "My Odas" => normalized = "my orders"
    /\ raw_text = "My Odas go to cats" => normalized = "my orders go to cart"
    /\ raw_text = "xy cats" => normalized = "xy cats"

\* C11 witness: the text that needs two rules in sequence was normalised.
C11_Witness ==
  /\ pc = "normalized" /\ PhraseRulesOnly
  /\ raw_text = "add 2 my cats"
  /\ normalized = "add to my cart"

\* C19: with an empty dictionary and fuzzy matching off, normalising a
\* result again returns it unchanged, and the canonical texts "go home" and
\* "go to cart" are returned unchanged.
C19_Idempotent ==
  PhraseRulesOnly =>
    /\ pc = "renormalized" => normalized = arg
    /\ pc = "normalized" /\ raw_text \in {"go home", "go to cart"} =>
         normalized = raw_text

(***************************************************************************)
(* The two lru_cache wrappers, shared by the handlers of concurrent        *)
(* requests                                                                *)
(***************************************************************************)
\* @lru_cache(maxsize=1000) on normalize_ghana_accent
NORMALIZE_MAXSIZE == 1000

\* @lru_cache(maxsize=500) on parse_command
PARSE_MAXSIZE == 500

\* at most MaxCalls requests are served in a run
MaxCalls == 2

\* the request handlers that may run at the same time
Threads == {1, 2}

\* mutant: a hit returns the result of the entry used last
CacheGet_Newest(cache, key) == cache[Len(cache)].value

\* a cache is the sequence of its entries [key, value], the least recently
\* used first; the stored result of key
CacheGet(cache, key) ==
  cache[CHOOSE i \in 1..Len(cache) : cache[i].key = key].value

\* key in cache
CacheHit(cache, key) == \E i \in 1..Len(cache) : cache[i].key = key

\* a hit moves the entry of key to the most recently used end
CacheTouch(cache, key) ==
  LET i == CHOOSE j \in 1..Len(cache) : cache[j].key = key
  IN  SubSeq(cache, 1, i - 1) \o SubSeq(cache, i + 1, Len(cache))
        \o <<cache[i]>>

\* mutant: a full cache gives up the entry used last
CachePut_EvictsNewest(cache, key, value, maxsize) ==
  IF CacheHit(cache, key) THEN cache
  ELSE IF Len(cache) >= maxsize
    THEN Append(SubSeq(cache, 1, Len(cache) - 1),
                [key |-> key, value |-> value])
  ELSE Append(cache, [key |-> key, value |-> value])

\* mutant: the result is stored without looking for the key again
CachePut_NoSecondLook(cache, key, value, maxsize) ==
  IF Len(cache) >= maxsize
  THEN Append(Tail(cache), [key |-> key, value |-> value])
  ELSE Append(cache, [key |-> key, value |-> value])

\* after the call, under the lock: nothing when the key was stored in the
\* meantime; else the new entry becomes the most recently used one, in
\* place of the least recently used one when the cache is full
CachePut(cache, key, value, maxsize) ==
  IF CacheHit(cache, key) THEN cache
  ELSE IF Len(cache) >= maxsize
    THEN Append(Tail(cache), [key |-> key, value |-> value])
  ELSE Append(cache, [key |-> key, value |-> value])

\* the decimal digits
Digits == "0123456789"

RECURSIVE Numeral(_)
\* str(n)
Numeral(n) ==
  IF n < 10 THEN SubSeq(Digits, n + 1, n + 1)
  ELSE Numeral(n \div 10) \o SubSeq(Digits, (n % 10) + 1, (n % 10) + 1)

\* the caches after the requests "0", "1", ... "999" were served one after
\* the other: the normaliser's cache holds all of them, the classifier's
\* the last 500
WarmNormCache ==
  [i \in 1..NORMALIZE_MAXSIZE |->
     [key |-> Numeral(i - 1),
      value |-> Normalize(Numeral(i - 1), NoCorrections, TRUE)]]

WarmParseCache ==
  [i \in 1..PARSE_MAXSIZE |->
     LET text == WarmNormCache[NORMALIZE_MAXSIZE - PARSE_MAXSIZE + i].value
     IN  [key |-> text, value |-> parse_command(text)]]

\* the texts of the requests: the least and the most recently used text of
\* the warm caches, and two texts with the same normalised form
RequestTexts ==
  {Numeral(0), Numeral(NORMALIZE_MAXSIZE - 1), "go to cats", "Go To Cats"}

\* a handler between two requests
Idle ==
  [pc |-> "idle", text |-> None, normalized |-> None, command |-> None,
   norm_hit |-> FALSE, parse_hit |-> FALSE]

\* the service is up: the caches are empty (just started) or warm
InitCache ==
  /\ pc = "serving"
  /\ raw_text = ""
  /\ nfrag = 0
  /\ normalized = None
  /\ command = None
  /\ arg = None
  /\ FUZZY_AVAILABLE = TRUE
  /\ GHANA_CORRECTIONS = NoCorrections
  /\ recognizer = None
  /\ response = None
  /\ \/ norm_cache = <<>> /\ parse_cache = <<>>
     \/ norm_cache = WarmNormCache /\ parse_cache = WarmParseCache
  /\ handler = [t \in Threads |-> Idle]
  /\ ncalls = 0
  /\ touches = <<>>

service_vars == <<raw_text, normalized, command, arg, pc, nfrag,
                  FUZZY_AVAILABLE, GHANA_CORRECTIONS, transcribe_vars>>

\* a handler takes a request with its text
Receive(t, text) ==
  /\ handler[t].pc \in {"idle", "done"}
  /\ ncalls < MaxCalls
  /\ ncalls' = ncalls + 1
  /\ handler' = [handler EXCEPT ![t] = [Idle EXCEPT !.pc = "norm_lookup",
                                                     !.text = text]]
  /\ UNCHANGED <<norm_cache, parse_cache, touches, service_vars>>

\* normalize_ghana_accent(text), the wrapper's look-up: a hit returns the
\* stored result and makes the entry the most recently used
NormLookup(t) ==
  /\ handler[t].pc = "norm_lookup"
  /\ IF CacheHit(norm_cache, handler[t].text)
     THEN /\ norm_cache' = CacheTouch(norm_cache, handler[t].text)
          /\ touches' = Append(touches, <<"normalize", handler[t].text>>)
          /\ handler' = [handler EXCEPT
               ![t].normalized = CacheGet(norm_cache, handler[t].text),
               ![t].norm_hit = TRUE,
               ![t].pc = "parse_lookup"]
     ELSE /\ handler' = [handler EXCEPT ![t].pc = "norm_miss"]
          /\ UNCHANGED <<norm_cache, touches>>
  /\ UNCHANGED <<parse_cache, ncalls, service_vars>>

\* normalize_ghana_accent(text) after a miss: the function is called and its
\* result stored
NormStore(t) ==
  /\ handler[t].pc = "norm_miss"
  /\ LET result == Normalize(handler[t].text, GHANA_CORRECTIONS,
                             FUZZY_AVAILABLE)
     IN  /\ norm_cache' = CachePut(norm_cache, handler[t].text, result,
                                   NORMALIZE_MAXSIZE)
         /\ touches' = IF CacheHit(norm_cache, handler[t].text) THEN touches
                       ELSE Append(touches, <<"normalize", handler[t].text>>)
         /\ handler' = [handler EXCEPT ![t].normalized = result,
                                       ![t].pc = "parse_lookup"]
  /\ UNCHANGED <<parse_cache, ncalls, service_vars>>

\* parse_command(normalized), the wrapper's look-up
ParseLookup(t) ==
  /\ handler[t].pc = "parse_lookup"
  /\ IF CacheHit(parse_cache, handler[t].normalized)
     THEN /\ parse_cache' = CacheTouch(parse_cache, handler[t].normalized)
          /\ touches' = Append(touches, <<"parse", handler[t].normalized>>)
          /\ handler' = [handler EXCEPT
               ![t].command = CacheGet(parse_cache, handler[t].normalized),
               ![t].parse_hit = TRUE,
               ![t].pc = "done"]
     ELSE /\ handler' = [handler EXCEPT ![t].pc = "parse_miss"]
          /\ UNCHANGED <<parse_cache, touches>>
  /\ UNCHANGED <<norm_cache, ncalls, service_vars>>

\* parse_command(normalized) after a miss
ParseStore(t) ==
  /\ handler[t].pc = "parse_miss"
  /\ LET result == parse_command(handler[t].normalized)
     IN  /\ parse_cache' = CachePut(parse_cache, handler[t].normalized,
                                    result, PARSE_MAXSIZE)
         /\ touches' = IF CacheHit(parse_cache, handler[t].normalized)
                       THEN touches
                       ELSE Append(touches,
                                   <<"parse", handler[t].normalized>>)
         /\ handler' = [handler EXCEPT ![t].command = result,
                                       ![t].pc = "done"]
  /\ UNCHANGED <<norm_cache, ncalls, service_vars>>

NextCache ==
  \/ \E t \in Threads : \E text \in RequestTexts : Receive(t, text)
  \/ \E t \in Threads : NormLookup(t)
  \/ \E t \in Threads : NormStore(t)
  \/ \E t \in Threads : ParseLookup(t)
  \/ \E t \in Threads : ParseStore(t)

SpecCache == InitCache /\ [][NextCache]_vars

\* the keys of the entries of a cache
Keys(cache) == {cache[i].key : i \in 1..Len(cache)}

\* the results stored under key
Stored(cache, key) ==
  {cache[i].value : i \in {j \in 1..Len(cache) : cache[j].key = key}}

\* C12: whatever calls came before (misses, hits, evictions, in either
\* cache), the text a handler gets from the cached normalize_ghana_accent
\* is what the function computes for its request text, and the command it
\* gets from the cached parse_command is what the function computes for
\* that normalised text: every call with the same text returns the same.
C12_CachedEqualsUncached ==
  \A t \in Threads :
    /\ handler[t].pc \in {"parse_lookup", "parse_miss", "done"} =>
         handler[t].normalized =
           Normalize(handler[t].text, GHANA_CORRECTIONS, FUZZY_AVAILABLE)
    /\ handler[t].pc = "done" =>
         handler[t].command =
           parse_command(Normalize(handler[t].text, GHANA_CORRECTIONS,
                                   FUZZY_AVAILABLE))

\* C12 witness: a text asked a second time was answered from both caches,
\* after its first call had stored it in the full caches in place of older
\* entries.
C12_Witness ==
  /\ Len(norm_cache) = NORMALIZE_MAXSIZE
  /\ Numeral(0) \notin Keys(norm_cache)
  /\ \E t \in Threads :
       /\ handler[t].pc = "done" /\ handler[t].text = "go to cats"
       /\ handler[t].norm_hit /\ handler[t].parse_hit
       /\ handler[t].command.type = "navigate"

\* the digit a character stands for
DigitValue(c) == CHOOSE d \in 0..9 : SubSeq(Digits, d + 1, d + 1) = c

RECURSIVE NumeralValue(_)
\* int(text)
NumeralValue(text) ==
  IF Len(text) = 1 THEN DigitValue(text)
  ELSE 10 * NumeralValue(SubSeq(text, 1, Len(text) - 1))
       + DigitValue(SubSeq(text, Len(text), Len(text)))

\* the uses of key in cache name since the start of the run
UsesOf(name, key) == {j \in 1..Len(touches) : touches[j] = <<name, key>>}

\* when key was last used in cache name: the warm-up requests count from 0,
\* the uses of the run follow them
UsedAt(name, key) ==
  IF UsesOf(name, key) = {} THEN NumeralValue(key)
  ELSE NORMALIZE_MAXSIZE + CHOOSE j \in UsesOf(name, key) :
                             \A k \in UsesOf(name, key) : k <= j

\* a step that drops a key from the cache drops the least recently used one
EvictsLeastRecentlyUsed(name, cache, after) ==
  cache # after /\ Len(cache) = Len(after) =>
    \A e \in Keys(cache) \ Keys(after) :
      \A k \in Keys(cache) \ {e} : UsedAt(name, e) < UsedAt(name, k)

\* the capacities
WithinCapacity ==
  /\ Len(norm_cache) <= NORMALIZE_MAXSIZE
  /\ Len(parse_cache) <= PARSE_MAXSIZE

\* what a step of handler t does to the caches
CacheStep(t) ==
  LET h == handler[t]
      g == handler'[t]
  IN  \* a hit returns the stored result and stores nothing
      /\ h.pc = "norm_lookup" /\ g.pc = "parse_lookup" =>
           /\ Stored(norm_cache, h.text) = {g.normalized}
           /\ Keys(norm_cache') = Keys(norm_cache)
      /\ h.pc = "parse_lookup" /\ g.pc = "done" =>
           /\ Stored(parse_cache, h.normalized) = {g.command}
           /\ Keys(parse_cache') = Keys(parse_cache)
      \* a miss computes the result and stores it
      /\ h.pc = "norm_miss" /\ g.pc = "parse_lookup" =>
           /\ g.normalized =
                Normalize(h.text, GHANA_CORRECTIONS, FUZZY_AVAILABLE)
           /\ Stored(norm_cache', h.text) = {g.normalized}
      /\ h.pc = "parse_miss" /\ g.pc = "done" =>
           /\ g.command = parse_command(h.normalized)
           /\ Stored(parse_cache', h.normalized) = {g.command}
      \* a call of one function leaves the cache of the other alone
      /\ h.pc \in {"norm_lookup", "norm_miss"} /\ g.pc # h.pc =>
           parse_cache' = parse_cache
      /\ h.pc \in {"parse_lookup", "parse_miss"} /\ g.pc # h.pc =>
           norm_cache' = norm_cache

\* C13: the cache of normalize_ghana_accent never holds more than 1000
\* entries and that of parse_command never more than 500; a miss computes
\* the result and stores it, a hit returns the stored result; when a store
\* would exceed the capacity the entry dropped is the least recently used
\* one; a call of one function never changes the cache of the other.
C13_BoundedLruCaches ==
  /\ []WithinCapacity
  /\ [][/\ WithinCapacity'
        /\ \A t \in Threads : CacheStep(t)
        /\ EvictsLeastRecentlyUsed("normalize", norm_cache, norm_cache')
        /\ EvictsLeastRecentlyUsed("parse", parse_cache, parse_cache')]_vars

\* C13 witness: the full cache of the normaliser had its oldest entry used
\* again, and the store of a new text then dropped the next oldest one.
C13_Witness ==
  /\ Len(norm_cache) = NORMALIZE_MAXSIZE
  /\ Len(parse_cache) = PARSE_MAXSIZE
  /\ Numeral(0) \in Keys(norm_cache)
  /\ Numeral(1) \notin Keys(norm_cache)
  /\ "go to cats" \in Keys(norm_cache)
  /\ "go to cart" \in Keys(parse_cache)

\* the position of key in cache
IndexOf(cache, key) == CHOOSE i \in 1..Len(cache) : cache[i].key = key

\* the cache of a name
CacheOf(name) == IF name = "normalize" THEN norm_cache ELSE parse_cache

\* what the functions compute for the texts of the warm-up
WarmNormalized ==
  [key \in {Numeral(n) : n \in 0..(NORMALIZE_MAXSIZE - 1)} |->
     Normalize(key, NoCorrections, TRUE)]

WarmParsed ==
  [key \in {WarmNormalized[Numeral(n)] :
              n \in (NORMALIZE_MAXSIZE - PARSE_MAXSIZE)
                      ..(NORMALIZE_MAXSIZE - 1)} |->
     parse_command(key)]

\* every entry of a cache holds what the function computes for its key: the
\* entries are those of the warm-up or results for request texts
EntriesRight ==
  /\ \A i \in 1..Len(norm_cache) :
       IF norm_cache[i].key \in RequestTexts
       THEN norm_cache[i].value =
              Normalize(norm_cache[i].key, GHANA_CORRECTIONS,
                        FUZZY_AVAILABLE)
       ELSE /\ norm_cache[i].key \in DOMAIN WarmNormalized
            /\ norm_cache[i].value = WarmNormalized[norm_cache[i].key]
  /\ \A i \in 1..Len(parse_cache) :
       IF UsesOf("parse", parse_cache[i].key) # {}
       THEN parse_cache[i].value = parse_command(parse_cache[i].key)
       ELSE /\ parse_cache[i].key \in DOMAIN WarmParsed
            /\ parse_cache[i].value = WarmParsed[parse_cache[i].key]

\* C14: with handlers running at the same time, in any interleaving of
\* their cache operations, no entry is lost (a key used in the run is in
\* its cache as long as fewer keys than the capacity were used after it),
\* no entry holds a wrong result, no key is stored twice and the entries
\* stand in the order of their last use, and the capacities hold.
C14_ConcurrentCachesConsistent ==
  /\ WithinCapacity
  /\ EntriesRight
  /\ Cardinality(Keys(norm_cache)) = Len(norm_cache)
  /\ Cardinality(Keys(parse_cache)) = Len(parse_cache)
  /\ \A j \in 1..Len(touches) :
       LET name  == touches[j][1]
           later == {touches[k][2] : k \in {l \in (j + 1)..Len(touches) :
                                               touches[l][1] = name}}
           size  == IF name = "normalize" THEN NORMALIZE_MAXSIZE
                    ELSE PARSE_MAXSIZE
       IN  Cardinality(later \ {touches[j][2]}) < size =>
             touches[j][2] \in Keys(CacheOf(name))
  /\ \A j, k \in 1..Len(touches) :
       /\ touches[j][1] = touches[k][1]
       /\ UsedAt(touches[j][1], touches[j][2])
            < UsedAt(touches[k][1], touches[k][2])
       /\ touches[j][2] \in Keys(CacheOf(touches[j][1]))
       /\ touches[k][2] \in Keys(CacheOf(touches[k][1]))
       => IndexOf(CacheOf(touches[j][1]), touches[j][2])
            < IndexOf(CacheOf(touches[k][1]), touches[k][2])

\* C14 witness: two handlers missed the same text at the same time; the
\* first stored it, the second found it stored and left the cache as it was.
C14_Witness ==
  /\ handler[1].text = handler[2].text
  /\ handler[1].text # None
  /\ \A t \in Threads :
       handler[t].pc \in {"parse_lookup", "parse_miss", "done"}
       /\ ~handler[t].norm_hit
  /\ Cardinality(UsesOf("normalize", handler[1].text)) = 1
  /\ handler[1].text \in Keys(norm_cache)

====
